---- MODULE Spec2Model ----
(***************************************************************************)
(* take_photo.py: take one photo with a USB or a Raspberry Pi camera,      *)
(* rotate it by the calibration angle when there is one, save it under a   *)
(* timestamp name and send status messages to the log.                     *)
(*                                                                         *)
(* Strings are TLC strings ("a" \o "b" is concatenation); the platform     *)
(* version, which the code indexes, is a sequence of one-character         *)
(* strings.  An exception is the name of its class, "none" meaning that    *)
(* nothing was raised.                                                     *)
(***************************************************************************)
EXTENDS Integers, Sequences, FiniteSets, TLC

VARIABLES
    pc,           \* position of the run in the script
    environ,      \* os.environ: FARMWARE_URL, FARMWARE_TOKEN, FARMBOT_OS_VERSION
    CAMERA,       \* the camera selector read by the main block
    camera_port,  \* usb_camera_photo: index of the video device
    camera,       \* the cv2.VideoCapture object and the calls made on it
    cfg,          \* the seven values get_config_value returned
    pidx,         \* next capture parameter to apply (1..7), 8 when all are done
    ret,          \* camera.read(): whether a frame was returned
    image,        \* camera.read(): the frame
    calibration,  \* CAMERA_CALIBRATION_total_rotation_angle as rotate read it
    rotated,      \* rotate(image): the value returned and the exception raised
    filename,     \* name of the output file
    retcode,      \* exit status of raspistill (-1: not run)
    events,       \* the calls of log(message, message_type), in order
    posts,        \* the requests handed to requests.post, in order
    stdout,       \* what print() wrote, in order
    files,        \* the calls of cv2.imwrite(path, image), in order
    exc           \* the exception that ended the run ("none": no exception)

vars == <<pc, environ, CAMERA, camera_port, camera, cfg, pidx, ret, image,
          calibration, rotated, filename, retcode, events, posts, stdout, files, exc>>

(***************************************************************************)
(* Bounds of the model.                                                    *)
(***************************************************************************)
MaxDim == 2         \* frames are 1..MaxDim pixels high and wide
MaxAngle == 190     \* calibration angles are -MaxAngle..MaxAngle degrees
MaxMajor == 12      \* platform major versions are 0..MaxMajor
MaxMinor == 1       \* platform minor versions are 0..MaxMinor
MaxEpoch == 1       \* time() returns 1..MaxEpoch

(***************************************************************************)
(* Plain arithmetic of the Python expressions.                             *)
(***************************************************************************)
Abs(x) == IF x < 0 THEN -x ELSE x

\* int(x / d) for d > 0: Python's int() truncates toward zero.
int_div(x, d) == IF x >= 0 THEN x \div d ELSE -((-x) \div d)

DigitChars == <<"0", "1", "2", "3", "4", "5", "6", "7", "8", "9">>

\* str(n) for n >= 0, as a sequence of characters.
RECURSIVE Dec(_)
Dec(n) == IF n < 10 THEN <<DigitChars[n + 1]>>
          ELSE Dec(n \div 10) \o <<DigitChars[(n % 10) + 1]>>

\* int(c) of one character: its value, or -1 where Python raises ValueError.
int_of_char(c) ==
    IF \E i \in 1..10 : DigitChars[i] = c
    THEN (CHOOSE i \in 1..10 : DigitChars[i] = c) - 1
    ELSE -1

(***************************************************************************)
(* farmware_api_url                                                        *)
(***************************************************************************)
versioned_from == 5    \* major_version > 5 selects the api/v1/ prefix

getenv_version == IF "FARMBOT_OS_VERSION" \in DOMAIN environ
                  THEN environ["FARMBOT_OS_VERSION"]
                  ELSE <<"0", ".", "0", ".", "0">>

\* The first character of the version decides: int(version[0]).
major_version == int_of_char(getenv_version[1])

uses_api_v1(major) == major > versioned_from

farmware_api_url ==
    IF Len(getenv_version) = 0 THEN [exc |-> "IndexError", url |-> ""]
    ELSE IF major_version < 0 THEN [exc |-> "ValueError", url |-> ""]
    ELSE [exc |-> "none",
          url |-> IF uses_api_v1(major_version)
                  THEN environ["FARMWARE_URL"] \o "api/v1/"
                  ELSE environ["FARMWARE_URL"]]

(***************************************************************************)
(* log(message, message_type).  `outcome` is what requests.post does when  *)
(* it is reached: it returns a response, whose status the code does not    *)
(* look at ("response"), or it raises ConnectionError.                     *)
(***************************************************************************)
PostOutcomes == {"response", "ConnectionError"}

\* Whether log gets as far as requests.post.
reaches_post ==
    /\ "FARMWARE_URL" \in DOMAIN environ
    /\ "FARMWARE_TOKEN" \in DOMAIN environ
    /\ farmware_api_url.exc = "none"

\* The exception log raises to its caller.
log_exc(outcome) ==
    IF "FARMWARE_URL" \notin DOMAIN environ THEN "none"
    ELSE IF "FARMWARE_TOKEN" \notin DOMAIN environ THEN "KeyError"
    ELSE IF farmware_api_url.exc # "none" THEN farmware_api_url.exc
    ELSE IF outcome = "ConnectionError" THEN "ConnectionError"
    ELSE "none"

log(message, message_type, outcome) ==
    /\ events' = Append(events, [message |-> message, message_type |-> message_type])
    /\ IF "FARMWARE_URL" \notin DOMAIN environ
       THEN /\ stdout' = Append(stdout, message)
            /\ UNCHANGED posts
       ELSE /\ UNCHANGED stdout
            /\ posts' = IF reaches_post
                        THEN Append(posts,
                                 [url |-> farmware_api_url.url \o "celery_script",
                                  authorization |-> "bearer " \o environ["FARMWARE_TOKEN"],
                                  message |-> "[take-photo] " \o message,
                                  message_type |-> message_type,
                                  outcome |-> outcome])
                        ELSE posts

\* requests' exceptions derive from IOError, which is OSError.
is_OSError(e) == e \in {"OSError", "ConnectionError"}

(***************************************************************************)
(* rotate(image).  An image is its shape and what was done to it: the      *)
(* quarter turns np.rot90 applied (mod 4), the angle of the affine warp,   *)
(* and whether it went through cv2.warpAffine.  `angle_env` is the         *)
(* environment's CAMERA_CALIBRATION_total_rotation_angle.                  *)
(***************************************************************************)
Frame(h, w) == [height |-> h, width |-> w, turns |-> 0, angle |-> 0, warped |-> FALSE]

sign_of(angle) == IF angle < 0 THEN -1 ELSE 1

remainder_of(angle) == Abs(angle) % 90

\* The slip that lets a remainder of exactly 45 add a turn.
extra_turn_at_45(remainder) == remainder >= 45

extra_turn(remainder) == remainder > 45

turns_of(angle) ==
    IF extra_turn(remainder_of(angle))
    THEN -int_div(angle, 90) - 1 * sign_of(angle)
    ELSE -int_div(angle, 90)

residual_of(angle) == angle + 90 * turns_of(angle)

\* The slip that keeps the frame's shape through a quarter turn.
rot90_shape_kept(height, width, k) == [height |-> height, width |-> width]

\* np.rot90: an odd number of quarter turns exchanges height and width.
rot90_shape(height, width, k) ==
    IF k % 2 = 1 THEN [height |-> width, width |-> height]
    ELSE [height |-> height, width |-> width]

rot90(img, k) ==
    [img EXCEPT !.height = rot90_shape(img.height, img.width, k).height,
                !.width = rot90_shape(img.height, img.width, k).width,
                !.turns = (img.turns + k) % 4]

getRotationMatrix2D(center, angle, scale) ==
    [center |-> center, angle |-> angle, scale |-> scale]

\* cv2.warpAffine(src, M, (width, height)): the output has the size asked for.
warpAffine(img, matrix, dsize) ==
    [img EXCEPT !.height = dsize[2], !.width = dsize[1],
                !.angle = matrix.angle, !.warped = TRUE]

rotate(img, angle_env) ==
    IF angle_env.kind = "unset" THEN [exc |-> "KeyError", image |-> img]
    ELSE IF angle_env.kind = "malformed" THEN [exc |-> "ValueError", image |-> img]
    ELSE IF angle_env.kind = "nan" THEN [exc |-> "ValueError", image |-> img]
    ELSE LET angle == angle_env.val
             turned == rot90(img, turns_of(angle))
             height == turned.height
             width == turned.width
             matrix == getRotationMatrix2D(<<width \div 2, height \div 2>>,
                                           residual_of(angle), 1)
         IN [exc |-> "none", image |-> warpAffine(turned, matrix, <<width, height>>)]

(***************************************************************************)
(* image_filename, upload_path                                             *)
(***************************************************************************)
image_filename(epoch) == ToString(epoch) \o ".jpg"

\* `images_dir_env` is the environment's IMAGES_DIR: [set, val].
upload_path(name, images_dir_env) ==
    (IF images_dir_env.set THEN images_dir_env.val ELSE "/tmp/images") \o "/" \o name


(***************************************************************************)
(* What the surroundings can give a run.                                   *)
(***************************************************************************)
EmptyEnv == [name \in {} |-> ""]

OptEnv(name, values) == {EmptyEnv} \cup {name :> v : v \in values}

Environs(versions) ==
    {u @@ t @@ v : u \in OptEnv("FARMWARE_URL", {"http://farmbot/"}),
                   t \in OptEnv("FARMWARE_TOKEN", {"token"}),
                   v \in OptEnv("FARMBOT_OS_VERSION", versions)}

Version(major, minor, patch) ==
    Dec(major) \o <<".">> \o Dec(minor) \o <<".">> \o Dec(patch)

\* Every version string major.minor.0, the empty string and one that does
\* not start with a digit.
AllVersions ==
    {Version(major, minor, 0) : major \in 0..MaxMajor, minor \in 0..MaxMinor}
        \cup {<<>>, <<"v", "6">>}

\* The versions a whole run draws from.
RunVersions == {Version(6, 0, 0)}

CameraEnv == {[set |-> FALSE, val |-> ""], [set |-> TRUE, val |-> "USB"],
              [set |-> TRUE, val |-> "RPI"]}

\* 'RPI' in CAMERA, over the values of CameraEnv.
has_RPI(selector) == selector = "RPI"

ImagesDirEnv == {[set |-> FALSE, val |-> ""], [set |-> TRUE, val |-> "/images"]}

Number(a) == [kind |-> "number", val |-> a]

NoNumber == {[kind |-> k, val |-> 0] : k \in {"unset", "malformed", "nan"}}

AllAngles == {Number(a) : a \in (0 - MaxAngle)..MaxAngle} \cup NoNumber

\* The calibration angles a whole run draws from.
RunAngles == {Number(a) : a \in {0, -90, 165}}
                 \cup {[kind |-> k, val |-> 0] : k \in {"unset", "malformed"}}

Frames == {Frame(h, w) : h \in 1..MaxDim, w \in 1..MaxDim}

NoImage == Frame(0, 0)

NoRotation == [exc |-> "not called", image |-> NoImage]

NotRead == [kind |-> "not read", val |-> 0]

(***************************************************************************)
(* The capture parameters of usb_camera_photo, in the order applied.       *)
(***************************************************************************)
Params == <<"width", "height", "brightness", "contrast", "saturation", "hue", "gain">>

ParamSet == {Params[i] : i \in 1..Len(Params)}

default_width == 640
default_height == 480
default_level == 10      \* 10.0, for brightness, contrast, saturation, hue, gain
discard_frames == 20

sentinel(p) == IF p = "width" THEN default_width
               ELSE IF p = "height" THEN default_height
               ELSE default_level

\* What the seven get_config_value calls can return: for each parameter the
\* sentinel or another value.
Configs ==
    {[p \in ParamSet |-> IF p \in changed THEN sentinel(p) + 160 ELSE sentinel(p)] :
        changed \in SUBSET ParamSet}

\* The slip that leaves width and height alone at their defaults.
set_value_changed_only(p, value) == IF value # sentinel(p) THEN value ELSE -1

\* What the step of parameter p hands to camera.set: a value, or -1 for no call.
set_value(p, value) ==
    IF value # sentinel(p) THEN value
    ELSE IF p \in {"width", "height"} THEN sentinel(p)
    ELSE -1

\* Whether the step of parameter p calls log.
reports_set(p, value) == value # sentinel(p)

info_message(p, value) ==
    IF p = "width" THEN "Resolution width:" \o ToString(value)
    ELSE IF p = "height" THEN "Resolution height:" \o ToString(value)
    ELSE "set " \o p

NewCamera == [created |-> 0, port |-> -1, is_open |-> FALSE, sets |-> <<>>,
              grabs |-> 0, reads |-> 0, released |-> 0]

(***************************************************************************)
(* The state before the script runs.                                       *)
(***************************************************************************)
Blank ==
    /\ CAMERA = ""
    /\ camera_port = 0
    /\ camera = NewCamera
    /\ cfg = [p \in ParamSet |-> sentinel(p)]
    /\ pidx = 1
    /\ ret = FALSE
    /\ image = NoImage
    /\ calibration = NotRead
    /\ rotated = NoRotation
    /\ filename = ""
    /\ retcode = -1
    /\ events = <<>>
    /\ posts = <<>>
    /\ stdout = <<>>
    /\ files = <<>>
    /\ exc = "none"

Init ==
    /\ pc = "main"
    /\ environ \in Environs(RunVersions)
    /\ Blank

\* Where a statement that may raise `e` outside any handler leads.
after(e, next) == IF e = "none" THEN next ELSE "crashed"

(***************************************************************************)
(* The main block.                                                         *)
(***************************************************************************)
Main ==
    /\ pc = "main"
    /\ \E selector \in CameraEnv :
          /\ CAMERA' = IF selector.set THEN selector.val ELSE "USB"
          /\ pc' = IF has_RPI(CAMERA') THEN "rpi_call" ELSE "usb_probe"
    /\ UNCHANGED <<environ, camera_port, camera, cfg, pidx, ret, image, calibration,
                   rotated, filename, retcode, events, posts, stdout, files, exc>>

(***************************************************************************)
(* usb_camera_photo                                                        *)
(***************************************************************************)
\* The port the probe settles on: 1 as soon as /dev/video0 is missing.
probed_port(video0, video1) == IF video0 THEN 0 ELSE 1

not_detected(video0, video1) == ~video0 /\ ~video1

probe_prints(video0, video1) ==
    IF video0 THEN <<>>
    ELSE <<"No camera detected at video0.", "Trying video1...">>
         \o (IF video1 THEN <<>> ELSE <<"No camera detected at video1.">>)

\* Check for camera: the two os.path.exists tests.
UsbProbe ==
    /\ pc = "usb_probe"
    /\ \E video0 \in BOOLEAN, video1 \in BOOLEAN :
          /\ camera_port' = probed_port(video0, video1)
          /\ stdout' = stdout \o probe_prints(video0, video1)
          /\ pc' = IF not_detected(video0, video1) THEN "usb_not_detected" ELSE "usb_open"
    /\ UNCHANGED <<environ, CAMERA, camera, cfg, pidx, ret, image, calibration,
                   rotated, filename, retcode, events, posts, files, exc>>

\* log("USB Camera not detected.", "error")
UsbNotDetected ==
    /\ pc = "usb_not_detected"
    /\ \E outcome \in PostOutcomes :
          /\ log("USB Camera not detected.", "error", outcome)
          /\ exc' = log_exc(outcome)
          /\ pc' = after(log_exc(outcome), "usb_open")
    /\ UNCHANGED <<environ, CAMERA, camera_port, camera, cfg, pidx, ret, image,
                   calibration, rotated, filename, retcode, files>>

\* camera = cv2.VideoCapture(camera_port): the device may or may not open.
UsbOpen ==
    /\ pc = "usb_open"
    /\ \E opened \in BOOLEAN :
          camera' = [camera EXCEPT !.created = @ + 1, !.port = camera_port,
                                   !.is_open = opened]
    /\ pc' = "usb_config"
    /\ UNCHANGED <<environ, CAMERA, camera_port, cfg, pidx, ret, image, calibration,
                   rotated, filename, retcode, events, posts, stdout, files, exc>>

\* The seven get_config_value calls.
UsbConfig ==
    /\ pc = "usb_config"
    /\ cfg' \in Configs
    /\ pidx' = 1
    /\ pc' = "usb_set"
    /\ UNCHANGED <<environ, CAMERA, camera_port, camera, ret, image, calibration,
                   rotated, filename, retcode, events, posts, stdout, files, exc>>

\* One of the seven `if value != default` statements.
UsbSet ==
    /\ pc = "usb_set"
    /\ pidx <= Len(Params)
    /\ LET p == Params[pidx]
           pushed == set_value(p, cfg[p])
       IN /\ camera' = IF pushed = -1 THEN camera
                       ELSE [camera EXCEPT !.sets = Append(@, [prop |-> p, value |-> pushed])]
          /\ IF reports_set(p, cfg[p])
             THEN \E outcome \in PostOutcomes :
                     /\ log(info_message(p, cfg[p]), "info", outcome)
                     /\ exc' = log_exc(outcome)
                     /\ pc' = after(log_exc(outcome),
                                    IF pidx = Len(Params) THEN "usb_grab" ELSE "usb_set")
             ELSE /\ UNCHANGED <<events, posts, stdout, exc>>
                  /\ pc' = IF pidx = Len(Params) THEN "usb_grab" ELSE "usb_set"
    /\ pidx' = pidx + 1
    /\ UNCHANGED <<environ, CAMERA, camera_port, cfg, ret, image, calibration,
                   rotated, filename, retcode, files>>

\* Let camera adjust: the loop of camera.grab().
UsbGrab ==
    /\ pc = "usb_grab"
    /\ camera' = [camera EXCEPT !.grabs = @ + discard_frames]
    /\ pc' = "usb_read"
    /\ UNCHANGED <<environ, CAMERA, camera_port, cfg, pidx, ret, image, calibration,
                   rotated, filename, retcode, events, posts, stdout, files, exc>>

\* ret, image = camera.read(): a frame only from a device that opened.
UsbRead ==
    /\ pc = "usb_read"
    /\ \/ /\ camera.is_open
          /\ ret' = TRUE
          /\ image' \in Frames
       \/ /\ ret' = FALSE
          /\ image' = NoImage
    /\ camera' = [camera EXCEPT !.reads = @ + 1]
    /\ pc' = "usb_release"
    /\ UNCHANGED <<environ, CAMERA, camera_port, cfg, pidx, calibration,
                   rotated, filename, retcode, events, posts, stdout, files, exc>>

\* camera.release()
UsbRelease ==
    /\ pc = "usb_release"
    /\ camera' = [camera EXCEPT !.released = @ + 1, !.is_open = FALSE]
    /\ pc' = "usb_output"
    /\ UNCHANGED <<environ, CAMERA, camera_port, cfg, pidx, ret, image, calibration,
                   rotated, filename, retcode, events, posts, stdout, files, exc>>

\* The slip that saves whatever the read returned.
saves_image_always(returned) == TRUE

\* Whether the output branch saves an image.
saves_image(returned) == returned

\* The slip that prefixes the name before rotate is tried.
output_name_prefixed(name, rotation) == "rotated_" \o name

\* The try/except/else around rotate: the name and the image to save.
output_name(name, rotation) ==
    IF rotation.exc = "none" THEN "rotated_" \o name ELSE name

output_image(img, rotation) ==
    IF rotation.exc = "none" THEN rotation.image ELSE img

\* `if ret:` with an image: name it, try to rotate it, save it.
UsbSave ==
    /\ pc = "usb_output"
    /\ saves_image(ret)
    /\ \E epoch \in 1..MaxEpoch, angle_env \in RunAngles, images_dir \in ImagesDirEnv :
          LET rotation == rotate(image, angle_env)
              name == output_name(image_filename(epoch), rotation)
          IN /\ calibration' = angle_env
             /\ rotated' = rotation
             /\ filename' = name
             /\ files' = Append(files, [path |-> upload_path(name, images_dir),
                                        image |-> output_image(image, rotation)])
             /\ stdout' = Append(stdout, "Image saved: " \o upload_path(name, images_dir))
    /\ pc' = "done"
    /\ UNCHANGED <<environ, CAMERA, camera_port, camera, cfg, pidx, ret, image,
                   retcode, events, posts, exc>>

\* `else:` log("Problem getting image.", "error")
UsbProblem ==
    /\ pc = "usb_output"
    /\ ~saves_image(ret)
    /\ \E outcome \in PostOutcomes :
          /\ log("Problem getting image.", "error", outcome)
          /\ exc' = log_exc(outcome)
          /\ pc' = after(log_exc(outcome), "done")
    /\ UNCHANGED <<environ, CAMERA, camera_port, camera, cfg, pidx, ret, image,
                   calibration, rotated, filename, retcode, files>>

(***************************************************************************)
(* rpi_camera_photo                                                        *)
(***************************************************************************)
\* What subprocess.call can do: an exit status, or OSError when raspistill
\* cannot be started.
CallResults == {[exc |-> "none", status |-> 0], [exc |-> "none", status |-> 1],
                [exc |-> "OSError", status |-> -1]}

\* The branch taken after call(): the success print, or one of the two reports.
rpi_branch(result) ==
    IF result.exc # "none" THEN "rpi_not_detected"
    ELSE IF result.status = 0 THEN "done"
    ELSE "rpi_problem"

\* The try block up to the branch on retcode.  With exit status 0 raspistill
\* has written the 640x480 picture to the path it was given.
RpiCall ==
    /\ pc = "rpi_call"
    /\ \E epoch \in 1..MaxEpoch, images_dir \in ImagesDirEnv, result \in CallResults :
          LET filename_path == upload_path(image_filename(epoch), images_dir)
          IN /\ filename' = filename_path
             /\ retcode' = result.status
             /\ pc' = rpi_branch(result)
             /\ IF rpi_branch(result) = "done"
                THEN /\ stdout' = Append(stdout, "Image saved: " \o filename_path)
                     /\ files' = Append(files, [path |-> filename_path,
                                                image |-> Frame(default_height, default_width)])
                ELSE UNCHANGED <<stdout, files>>
    /\ UNCHANGED <<environ, CAMERA, camera_port, camera, cfg, pidx, ret, image,
                   calibration, rotated, events, posts, exc>>

\* Where an exception raised inside the try block leads: `except OSError`.
rpi_handler(e) ==
    IF e = "none" THEN "done"
    ELSE IF is_OSError(e) THEN "rpi_not_detected"
    ELSE "crashed"

\* log("Problem getting image.", "error"), inside the try block.
RpiProblem ==
    /\ pc = "rpi_problem"
    /\ \E outcome \in PostOutcomes :
          /\ log("Problem getting image.", "error", outcome)
          /\ pc' = rpi_handler(log_exc(outcome))
          /\ exc' = IF rpi_handler(log_exc(outcome)) = "crashed"
                    THEN log_exc(outcome) ELSE "none"
    /\ UNCHANGED <<environ, CAMERA, camera_port, camera, cfg, pidx, ret, image,
                   calibration, rotated, filename, retcode, files>>

\* log("Raspberry Pi Camera not detected.", "error"), in the handler.
RpiNotDetected ==
    /\ pc = "rpi_not_detected"
    /\ \E outcome \in PostOutcomes :
          /\ log("Raspberry Pi Camera not detected.", "error", outcome)
          /\ exc' = log_exc(outcome)
          /\ pc' = after(log_exc(outcome), "done")
    /\ UNCHANGED <<environ, CAMERA, camera_port, camera, cfg, pidx, ret, image,
                   calibration, rotated, filename, retcode, files>>

Next ==
    \/ Main
    \/ UsbProbe \/ UsbNotDetected \/ UsbOpen \/ UsbConfig \/ UsbSet \/ UsbGrab
    \/ UsbRead \/ UsbRelease \/ UsbSave \/ UsbProblem
    \/ RpiCall \/ RpiProblem \/ RpiNotDetected

Spec == Init /\ [][Next]_vars

(***************************************************************************)
(* rotate on its own: every frame with every calibration angle.            *)
(***************************************************************************)
InitRotate ==
    /\ pc = "rotate_call"
    /\ environ = EmptyEnv
    /\ Blank

\* The camera hands over a frame.
RotateFrame ==
    /\ pc = "rotate_call"
    /\ image = NoImage
    /\ image' \in Frames
    /\ ret' = TRUE
    /\ UNCHANGED <<pc, environ, CAMERA, camera_port, camera, cfg, pidx, calibration,
                   rotated, filename, retcode, events, posts, stdout, files, exc>>

RotateCall ==
    /\ pc = "rotate_call"
    /\ image # NoImage
    /\ \E angle_env \in AllAngles :
          /\ calibration' = angle_env
          /\ rotated' = rotate(image, angle_env)
    /\ pc' = "rotate_done"
    /\ UNCHANGED <<environ, CAMERA, camera_port, camera, cfg, pidx, ret, image,
                   filename, retcode, events, posts, stdout, files, exc>>

NextRotate == RotateFrame \/ RotateCall

SpecRotate == InitRotate /\ [][NextRotate]_vars

(***************************************************************************)
(* log on its own: every environment with every platform version.          *)
(***************************************************************************)
Messages == {"USB Camera not detected.", "Problem getting image."}

InitLog ==
    /\ pc = "log_call"
    /\ environ \in Environs(AllVersions)
    /\ Blank

LogCall ==
    /\ pc = "log_call"
    /\ \E message \in Messages, outcome \in PostOutcomes :
          /\ log(message, "error", outcome)
          /\ exc' = log_exc(outcome)
    /\ pc' = "log_done"
    /\ UNCHANGED <<environ, CAMERA, camera_port, camera, cfg, pidx, ret, image,
                   calibration, rotated, filename, retcode, files>>

NextLog == LogCall

SpecLog == InitLog /\ [][NextLog]_vars


(***************************************************************************)
(* Vocabulary of the properties.                                           *)
(***************************************************************************)
Finished == pc \in {"done", "crashed"}

UsbRun == CAMERA = "USB"

RpiRun == CAMERA = "RPI"

\* How many times log was called with this message and type.
Reported(message, message_type) ==
    Cardinality({i \in DOMAIN events :
                    events[i] = [message |-> message, message_type |-> message_type]})

ErrorEvents == {i \in DOMAIN events : events[i].message_type = "error"}

Printed(text) == \E i \in DOMAIN stdout : stdout[i] = text

\* camera.set calls made for parameter p.
Pushes(p) == {i \in DOMAIN camera.sets : camera.sets[i].prop = p}

PlainNames == {ToString(e) \o ".jpg" : e \in 1..MaxEpoch}

Directories == {"/tmp/images", "/images"}

\* The number a string of digits denotes.
RECURSIVE DecValue(_)
DecValue(digits) ==
    IF digits = <<>> THEN 0
    ELSE DecValue(SubSeq(digits, 1, Len(digits) - 1)) * 10
            + int_of_char(digits[Len(digits)])

\* The major version of "major.minor.patch": the digits before the first dot.
MajorOf(version) ==
    LET dots == {i \in DOMAIN version : version[i] = "."}
        stop == IF dots = {} THEN Len(version) + 1
                ELSE CHOOSE i \in dots : \A j \in dots : i <= j
    IN DecValue(SubSeq(version, 1, stop - 1))

(***************************************************************************)
(* C1.  As claimed: for every calibration angle in (-180, 180] and every   *)
(* frame, square or not, the image rotate returns has the width and the    *)
(* height of the frame.                                                    *)
(***************************************************************************)
C1_InRange == calibration.kind = "number" /\ calibration.val > -180 /\ calibration.val <= 180

C1_SameShape ==
    (pc = "rotate_done" /\ C1_InRange)
        => /\ rotated.exc = "none"
           /\ rotated.image.width = image.width
           /\ rotated.image.height = image.height

(***************************************************************************)
(* C1, amended.  For every calibration angle a in (-180, 180] the image    *)
(* rotate returns has the shape of the frame after the quarter turns: the  *)
(* frame's width and height when |a| <= 45 or |a| > 135 (an even number of *)
(* turns), and the two exchanged when 45 < |a| <= 135 (an odd number).     *)
(***************************************************************************)
C1_ShapeAfterTurns ==
    (pc = "rotate_done" /\ C1_InRange)
        => /\ rotated.exc = "none"
           /\ IF 45 < Abs(calibration.val) /\ Abs(calibration.val) <= 135
              THEN /\ rotated.image.width = image.height
                   /\ rotated.image.height = image.width
              ELSE /\ rotated.image.width = image.width
                   /\ rotated.image.height = image.height

C1_Witness ==
    /\ pc = "rotate_done"
    /\ calibration = Number(90)
    /\ image.height # image.width
    /\ rotated.exc = "none"
    /\ rotated.image.height = image.width

(***************************************************************************)
(* C2.  For every calibration angle a of the range, rotate turns the image *)
(* by -trunc(a/90) quarter turns, by one more in the direction of a's sign *)
(* exactly when |a| mod 90 > 45 (45 itself adds none), and warps by the    *)
(* residual a + 90*turns, which is at most 45 degrees either way; 165      *)
(* gives -2 turns and -15 degrees, 0 gives no turn and 0 degrees.          *)
(***************************************************************************)
C2_Turns(a) ==
    LET whole == IF a >= 0 THEN a \div 90 ELSE 0 - ((0 - a) \div 90)
        more == IF Abs(a) % 90 > 45 THEN (IF a < 0 THEN -1 ELSE 1) ELSE 0
    IN 0 - whole - more

C2_Decomposition ==
    (pc = "rotate_done" /\ calibration.kind = "number")
        => LET a == calibration.val
           IN /\ rotated.exc = "none"
              /\ rotated.image.warped
              /\ rotated.image.angle = a + 90 * C2_Turns(a)
              /\ rotated.image.turns = C2_Turns(a) % 4
              /\ Abs(rotated.image.angle) <= 45
              /\ (a = 165 => rotated.image.turns = 2 /\ rotated.image.angle = -15)
              /\ (a = 45 => rotated.image.turns = 0 /\ rotated.image.angle = 45)
              /\ (a = 0 => rotated.image.turns = 0 /\ rotated.image.angle = 0)

C2_Witness ==
    /\ pc = "rotate_done"
    /\ calibration = Number(165)
    /\ rotated.image.turns = 2
    /\ rotated.image.angle = -15

(***************************************************************************)
(* C3.  As claimed: a failing status report (the POST fails, or the token  *)
(* is missing) never reaches the caller of log and never changes the run:  *)
(* no run is ended by an exception, and the steps after the report are     *)
(* still taken.                                                            *)
(***************************************************************************)
C3_ReportFailureContained ==
    /\ exc = "none"
    /\ pc # "crashed"
    /\ (RpiRun /\ Finished /\ retcode = 1) => Len(events) = 1

(***************************************************************************)
(* C4.  In the USB path, once a frame was returned a file is written       *)
(* whatever rotate does: its name carries "rotated_" exactly when rotate   *)
(* returned, and when rotate raised (angle missing or malformed) the frame *)
(* itself is saved under the plain timestamp name and nothing is reported  *)
(* as an error for it.                                                     *)
(***************************************************************************)
C4_RotationFallback ==
    (UsbRun /\ ret)
        => /\ pc \in {"usb_release", "usb_output", "done"}
           /\ pc = "done" =>
                /\ Len(files) = 1
                /\ files[1].path \in {d \o "/" \o filename : d \in Directories}
                /\ calibration.kind # "number" => rotated.exc # "none"
                /\ IF rotated.exc = "none"
                   THEN /\ filename \in {"rotated_" \o n : n \in PlainNames}
                        /\ files[1].image = rotated.image
                        /\ files[1].image.warped
                   ELSE /\ filename \in PlainNames
                        /\ files[1].image = image
                /\ Reported("Problem getting image.", "error") = 0
                /\ \A i \in ErrorEvents : events[i].message = "USB Camera not detected."
                /\ exc = "none"

C4_Witness ==
    /\ UsbRun /\ ret /\ pc = "done"
    /\ calibration.kind = "unset"
    /\ rotated.exc = "KeyError"
    /\ Len(files) = 1
    /\ files[1].image = image
    /\ filename \in PlainNames

(***************************************************************************)
(* C5.  A USB run writes exactly one file if the read returned a frame and *)
(* none otherwise; after a failed read "Problem getting image." is         *)
(* reported exactly once, after a successful one never.                    *)
(***************************************************************************)
C5_FileIffFrame ==
    UsbRun =>
        /\ Len(files) <= 1
        /\ Len(files) = 1 => ret /\ camera.reads = 1
        /\ Reported("Problem getting image.", "error") <= 1
        /\ Reported("Problem getting image.", "error") = 1 => ~ret /\ camera.reads = 1
        /\ Finished =>
             /\ Len(files) = (IF ret THEN 1 ELSE 0)
             /\ Reported("Problem getting image.", "error")
                    = (IF camera.reads = 1 /\ ~ret THEN 1 ELSE 0)

C5_Witness ==
    /\ UsbRun /\ pc = "done"
    /\ camera.reads = 1 /\ ~ret
    /\ files = <<>>
    /\ Reported("Problem getting image.", "error") = 1

(***************************************************************************)
(* C6.  As claimed: a board-camera run ends in exactly one of three        *)
(* reported outcomes: exit status 0, one success message with the path     *)
(* given to the utility and no error event; another exit status, the one   *)
(* error event "Problem getting image." and no success message; utility    *)
(* unavailable, the one error event "Raspberry Pi Camera not detected."    *)
(* and no success message.                                                 *)
(***************************************************************************)
C6_OneOutcome ==
    (RpiRun /\ Finished) =>
        IF retcode = 0
        THEN /\ stdout = <<"Image saved: " \o filename>>
             /\ events = <<>>
        ELSE IF retcode > 0
        THEN /\ events = <<[message |-> "Problem getting image.", message_type |-> "error"]>>
             /\ ~Printed("Image saved: " \o filename)
        ELSE /\ events = <<[message |-> "Raspberry Pi Camera not detected.",
                            message_type |-> "error"]>>
             /\ ~Printed("Image saved: " \o filename)

(***************************************************************************)
(* C7.  As claimed: the status is posted to base + "api/v1/" +             *)
(* "celery_script" exactly when the platform's major version is above 5,   *)
(* whatever its number of digits, and to base + "celery_script" when it is *)
(* 5 or less or the version is not set.                                    *)
(***************************************************************************)
C7_EndpointByMajor ==
    \A i \in DOMAIN posts :
        LET major == IF "FARMBOT_OS_VERSION" \in DOMAIN environ
                     THEN MajorOf(environ["FARMBOT_OS_VERSION"])
                     ELSE 0
        IN posts[i].url = (IF major > 5
                           THEN environ["FARMWARE_URL"] \o "api/v1/" \o "celery_script"
                           ELSE environ["FARMWARE_URL"] \o "celery_script")

(***************************************************************************)
(* C8.  As claimed: in every USB run the camera is released exactly once,  *)
(* after the read and before a file is written or a capture failure is     *)
(* reported, whether or not a frame came back; no run ends with the device *)
(* still open.                                                             *)
(***************************************************************************)
C8_ReleasedOnce ==
    UsbRun =>
        /\ camera.released <= 1
        /\ camera.released = 1 => camera.reads = 1
        /\ (files # <<>> \/ Reported("Problem getting image.", "error") > 0)
              => camera.released = 1
        /\ Finished => (camera.created = 1 => camera.released = 1) /\ ~camera.is_open

(***************************************************************************)
(* C9.  As claimed: for each of the seven capture parameters whose step    *)
(* the driver has taken, a value is pushed to the device if and only if    *)
(* the configured value differs from the parameter's sentinel, and exactly *)
(* one informational event is reported for a parameter pushed, none for    *)
(* one left at its sentinel.                                               *)
(***************************************************************************)
C9_Sentinel(p) == IF p = "width" THEN 640 ELSE IF p = "height" THEN 480 ELSE 10

C9_Info(p) ==
    Reported(IF p = "width" THEN "Resolution width:" \o ToString(cfg[p])
             ELSE IF p = "height" THEN "Resolution height:" \o ToString(cfg[p])
             ELSE "set " \o p, "info")

C10_ProbeNeverFatal ==
    (UsbRun /\ Finished) =>
        /\ camera.created = 1
        /\ camera.port = (IF Printed("No camera detected at video0.") THEN 1 ELSE 0)
        /\ Reported("USB Camera not detected.", "error")
              = (IF Printed("No camera detected at video1.") THEN 1 ELSE 0)

====
